---- MODULE Spec2Model ----
(***************************************************************************)
(* A model of the AI Exam Manager (GAPI_Exam_Paper_251225.py): the exam    *)
(* token codec (JSON -> zlib -> base64url, with the legacy base64(JSON)    *)
(* decode path), the chunked PDF upload with polling, the teacher session  *)
(* and the student view with MCQ auto-scoring.                             *)
(*                                                                         *)
(* Text is a sequence of character codes (ASCII), bytes are 0..255.        *)
(* A call that may raise returns a record [ok, ...]; ok = FALSE is the     *)
(* exception.                                                              *)
(***************************************************************************)
EXTENDS Integers, Sequences, FiniteSets, TLC

\* ------------------------------------------------------------------ helpers

Min(S) == CHOOSE m \in S : \A o \in S : m <= o

\* Sum of f[lo..hi], by halving (the recursion is log-deep).
RECURSIVE SumRange(_, _, _)
SumRange(f, lo, hi) ==
    IF lo > hi THEN 0
    ELSE IF lo = hi THEN f[lo]
    ELSE LET mid == (lo + hi) \div 2
         IN  SumRange(f, lo, mid) + SumRange(f, mid + 1, hi)

\* Concatenation of the sequences ss[lo..hi], by halving.
RECURSIVE Concat(_, _, _)
Concat(ss, lo, hi) ==
    IF lo > hi THEN <<>>
    ELSE IF lo = hi THEN ss[lo]
    ELSE LET mid == (lo + hi) \div 2
         IN  Concat(ss, lo, mid) \o Concat(ss, mid + 1, hi)

\* ------------------------------------------------------------ JSON values
\* A JSON value (what json.loads returns, what json.dumps takes) is a record
\* of one shape, so that any two values compare:
\*   t: the Python type, n: an int's value, s: a str's characters,
\*   k: a dict's keys in insertion order, a: a list's items or a dict's values.

JNone     == [t |-> "null",  n |-> 0, s |-> <<>>, k |-> <<>>, a |-> <<>>]
JBool(b)  == [t |-> IF b THEN "true" ELSE "false", n |-> 0, s |-> <<>>, k |-> <<>>, a |-> <<>>]
JNum(i)   == [t |-> "num",   n |-> i, s |-> <<>>, k |-> <<>>, a |-> <<>>]
JStr(cs)  == [t |-> "str",   n |-> 0, s |-> cs,   k |-> <<>>, a |-> <<>>]
JArr(xs)  == [t |-> "arr",   n |-> 0, s |-> <<>>, k |-> <<>>, a |-> xs]
JObj(ks, vs) == [t |-> "obj", n |-> 0, s |-> <<>>, k |-> ks, a |-> vs]

\* Python truthiness: `if exam_data:` / `not exam_data`.
Truthy(v) ==
    CASE v.t = "null"  -> FALSE
      [] v.t = "false" -> FALSE
      [] v.t = "true"  -> TRUE
      [] v.t = "num"   -> v.n # 0
      [] v.t = "str"   -> v.s # <<>>
      [] v.t = "arr"   -> v.a # <<>>
      [] v.t = "obj"   -> v.k # <<>>

\* `key in d` for a dict d.
HasKey(v, key) == v.t = "obj" /\ \E i \in 1..Len(v.k) : v.k[i] = key

\* d[key]: raises KeyError when absent, TypeError when d is no dict.
Subscript(v, key) ==
    IF HasKey(v, key)
    THEN [ok |-> TRUE, v |-> v.a[CHOOSE i \in 1..Len(v.k) : v.k[i] = key]]
    ELSE [ok |-> FALSE, v |-> JNone]

\* d.get(key): None when absent.
Get(v, key) == IF HasKey(v, key) THEN Subscript(v, key).v ELSE JNone

\* The keys of the exam format (lines 222-230), as character codes.
K_mcqs     == <<109, 99, 113, 115>>
K_short    == <<115, 104, 111, 114, 116>>
K_long     == <<108, 111, 110, 103>>
K_question == <<113, 117, 101, 115, 116, 105, 111, 110>>
K_options  == <<111, 112, 116, 105, 111, 110, 115>>
K_correct  == <<99, 111, 114, 114, 101, 99, 116>>
K_marks    == <<109, 97, 114, 107, 115>>

\* ---------------------------------------------------------------- json.dumps
\* json.dumps(obj) with the defaults the code uses (line 35): separators
\* ", " and ": ", ensure_ascii, dict keys in insertion order.

Digits   == 48..57
HexDigit == <<48, 49, 50, 51, 52, 53, 54, 55, 56, 57, 97, 98, 99, 100, 101, 102>>

RECURSIVE IntDigits(_)
IntDigits(n) == IF n < 10 THEN <<48 + n>> ELSE Append(IntDigits(n \div 10), 48 + (n % 10))

IntText(i) == IF i < 0 THEN <<45>> \o IntDigits(0 - i) ELSE IntDigits(i)

\* One character of a string, escaped as json's ESCAPE_ASCII does.
EscapeChar(c) ==
    CASE c = 34 -> <<92, 34>>
      [] c = 92 -> <<92, 92>>
      [] c = 10 -> <<92, 110>>
      [] c = 13 -> <<92, 114>>
      [] c = 9  -> <<92, 116>>
      [] c = 8  -> <<92, 98>>
      [] c = 12 -> <<92, 102>>
      [] OTHER  -> IF c < 32 \/ c > 126
                   THEN <<92, 117, 48, 48, HexDigit[((c \div 16) % 16) + 1], HexDigit[(c % 16) + 1]>>
                   ELSE <<c>>

StrText(cs) == <<34>> \o Concat([p \in 1..Len(cs) |-> EscapeChar(cs[p])], 1, Len(cs)) \o <<34>>

RECURSIVE json_dumps(_)
json_dumps(v) ==
    LET sep(p) == IF p > 1 THEN <<44, 32>> ELSE <<>>
    IN  CASE v.t = "null"  -> <<110, 117, 108, 108>>
          [] v.t = "true"  -> <<116, 114, 117, 101>>
          [] v.t = "false" -> <<102, 97, 108, 115, 101>>
          [] v.t = "num"   -> IntText(v.n)
          [] v.t = "str"   -> StrText(v.s)
          [] v.t = "arr"   ->
                <<91>> \o Concat([p \in 1..Len(v.a) |-> sep(p) \o json_dumps(v.a[p])],
                                 1, Len(v.a)) \o <<93>>
          [] v.t = "obj"   ->
                <<123>> \o Concat([p \in 1..Len(v.k) |->
                                      sep(p) \o StrText(v.k[p]) \o <<58, 32>> \o json_dumps(v.a[p])],
                                  1, Len(v.k)) \o <<125>>

\* ---------------------------------------------------------------- json.loads
\* A recursive-descent reading of the text, as json.decoder / json.scanner
\* do it.  Fractions, exponents, NaN/Infinity and \u escapes above 0xFF are not
\* modelled: the model reads them as a failure, and no token of the model
\* holds one.

WS == {32, 9, 10, 13}

ParseFail == [ok |-> FALSE, v |-> JNone, i |-> 0]

\* The first index >= i that holds no whitespace (Len(s) + 1 at the end).
SkipWS(s, i) ==
    IF i > Len(s) \/ s[i] \notin WS THEN i
    ELSE Min({j \in i..(Len(s) + 1) : j = Len(s) + 1 \/ s[j] \notin WS})

\* The number of backslashes that immediately precede position p.
RunBefore(s, p) ==
    IF p = 1 \/ s[p - 1] # 92 THEN 0
    ELSE LET stops == {m \in 1..(p - 1) : s[m] # 92}
         IN  IF stops = {} THEN p - 1
             ELSE p - 1 - (CHOOSE m \in stops : \A o \in stops : o <= m)

HexVal(c) ==
    CASE c \in 48..57  -> c - 48
      [] c \in 97..102 -> c - 87
      [] c \in 65..70  -> c - 55
      [] OTHER         -> 0 - 1

\* py_scanstring: s[i] is the opening quote.
ParseString(s, i) ==
    LET closers == {j \in (i + 1)..Len(s) : s[j] = 34 /\ RunBefore(s, j) % 2 = 0}
    IN  IF closers = {} THEN ParseFail
        ELSE
        LET j == Min(closers)
            c == SubSeq(s, i + 1, j - 1)
            m == Len(c)
            \* c[p] opens an escape: a backslash after an even run of them
            intro(p) == c[p] = 92 /\ RunBefore(c, p) % 2 = 0
            payload(p) == p > 1 /\ intro(p - 1)
            isU(p) == payload(p) /\ c[p] = 117
            inHex(p) == \E d \in 1..4 : p - d >= 1 /\ isU(p - d)
            uOk(p) == p + 4 <= m /\ \A d \in 1..4 : HexVal(c[p + d]) >= 0
            uVal(p) == HexVal(c[p + 1]) * 4096 + HexVal(c[p + 2]) * 256
                       + HexVal(c[p + 3]) * 16 + HexVal(c[p + 4])
            simple(ch) ==
                CASE ch = 34  -> 34
                  [] ch = 92  -> 92
                  [] ch = 47  -> 47
                  [] ch = 98  -> 8
                  [] ch = 102 -> 12
                  [] ch = 110 -> 10
                  [] ch = 114 -> 13
                  [] ch = 116 -> 9
                  [] OTHER    -> 0 - 1
            bad(p) ==
                IF isU(p) THEN ~uOk(p) \/ uVal(p) > 255
                ELSE IF payload(p) THEN simple(c[p]) < 0
                ELSE IF intro(p) THEN p = m
                ELSE c[p] < 32
            out(p) ==
                IF isU(p) THEN <<uVal(p)>>
                ELSE IF payload(p) THEN <<simple(c[p])>>
                ELSE IF intro(p) \/ inHex(p) THEN <<>>
                ELSE <<c[p]>>
        IN  IF \E p \in 1..m : bad(p) THEN ParseFail
            ELSE [ok |-> TRUE, v |-> JStr(Concat([p \in 1..m |-> out(p)], 1, m)), i |-> j + 1]

\* NUMBER_RE's integer part, -?(0|[1-9][0-9]*): s[i] is "-" or a digit.
ParseNumber(s, i) ==
    LET neg == s[i] = 45
        b == IF neg THEN i + 1 ELSE i
    IN  IF b > Len(s) \/ s[b] \notin Digits THEN ParseFail
        ELSE
        LET e == IF s[b] = 48 THEN b + 1
                 ELSE Min({j \in b..(Len(s) + 1) : j = Len(s) + 1 \/ s[j] \notin Digits})
            mag == SumRange([p \in b..(e - 1) |-> (s[p] - 48) * 10 ^ (e - 1 - p)], b, e - 1)
        IN  IF e - b > 9 \/ (e <= Len(s) /\ s[e] \in {46, 101, 69}) THEN ParseFail
            ELSE [ok |-> TRUE, v |-> JNum(IF neg THEN 0 - mag ELSE mag), i |-> e]

StartsWith(s, i, w) == i + Len(w) - 1 <= Len(s) /\ SubSeq(s, i, i + Len(w) - 1) = w

\* dict[key] = value while parsing: a repeated key keeps its place and takes
\* the later value.
PutMember(ks, vs, key, val) ==
    IF \E p \in 1..Len(ks) : ks[p] = key
    THEN [k |-> ks, a |-> [p \in 1..Len(ks) |-> IF ks[p] = key THEN val ELSE vs[p]]]
    ELSE [k |-> Append(ks, key), a |-> Append(vs, val)]

RECURSIVE ParseValue(_, _), ParseItems(_, _, _), ParseMembers(_, _, _, _)

\* JSONArray's loop, after a value: "]" ends the list, "," goes on.
ItemsDelim(s, xs, d) ==
    IF d > Len(s) THEN ParseFail
    ELSE IF s[d] = 93 THEN [ok |-> TRUE, v |-> JArr(xs), i |-> d + 1]
    ELSE IF s[d] = 44 THEN ParseItems(s, SkipWS(s, d + 1), xs)
    ELSE ParseFail

ItemsAfter(s, xs, val) ==
    IF ~val.ok THEN ParseFail
    ELSE ItemsDelim(s, Append(xs, val.v), SkipWS(s, val.i))

\* JSONArray's loop: a value, then "]" or ",".
ParseItems(s, i, xs) == ItemsAfter(s, xs, ParseValue(s, i))

\* JSONObject's loop, after "key": value: "}" ends the dict, "," goes on.
MembersDelim(s, put, d) ==
    IF d > Len(s) THEN ParseFail
    ELSE IF s[d] = 125 THEN [ok |-> TRUE, v |-> JObj(put.k, put.a), i |-> d + 1]
    ELSE IF s[d] = 44 THEN ParseMembers(s, SkipWS(s, d + 1), put.k, put.a)
    ELSE ParseFail

MembersVal(s, ks, vs, key, val) ==
    IF ~val.ok THEN ParseFail
    ELSE MembersDelim(s, PutMember(ks, vs, key, val.v), SkipWS(s, val.i))

MembersColon(s, ks, vs, key, c) ==
    IF c > Len(s) \/ s[c] # 58 THEN ParseFail
    ELSE MembersVal(s, ks, vs, key, ParseValue(s, SkipWS(s, c + 1)))

MembersKey(s, ks, vs, key) ==
    IF ~key.ok THEN ParseFail
    ELSE MembersColon(s, ks, vs, key.v.s, SkipWS(s, key.i))

\* JSONObject's loop: "key" : value, then "}" or ",".
ParseMembers(s, i, ks, vs) ==
    IF i > Len(s) \/ s[i] # 34 THEN ParseFail
    ELSE MembersKey(s, ks, vs, ParseString(s, i))

ParseObject(s, j) ==
    IF j <= Len(s) /\ s[j] = 125
    THEN [ok |-> TRUE, v |-> JObj(<<>>, <<>>), i |-> j + 1]
    ELSE ParseMembers(s, j, <<>>, <<>>)

ParseArray(s, j) ==
    IF j <= Len(s) /\ s[j] = 93
    THEN [ok |-> TRUE, v |-> JArr(<<>>), i |-> j + 1]
    ELSE ParseItems(s, j, <<>>)

\* scan_once at index i (whitespace already skipped).
ParseValue(s, i) ==
    IF i > Len(s) THEN ParseFail
    ELSE CASE s[i] = 34  -> ParseString(s, i)
           [] s[i] = 123 -> ParseObject(s, SkipWS(s, i + 1))
           [] s[i] = 91  -> ParseArray(s, SkipWS(s, i + 1))
           [] s[i] = 45 \/ s[i] \in Digits -> ParseNumber(s, i)
           [] StartsWith(s, i, <<110, 117, 108, 108>>) ->
                [ok |-> TRUE, v |-> JNone, i |-> i + 4]
           [] StartsWith(s, i, <<116, 114, 117, 101>>) ->
                [ok |-> TRUE, v |-> JBool(TRUE), i |-> i + 4]
           [] StartsWith(s, i, <<102, 97, 108, 115, 101>>) ->
                [ok |-> TRUE, v |-> JBool(FALSE), i |-> i + 5]
           [] OTHER -> ParseFail

LoadsEnd(s, r) ==
    IF r.ok /\ SkipWS(s, r.i) = Len(s) + 1
    THEN [ok |-> TRUE, v |-> r.v]
    ELSE [ok |-> FALSE, v |-> JNone]

\* json.loads(text): one value, whitespace around it, nothing after it.
json_loads(s) == LoadsEnd(s, ParseValue(s, SkipWS(s, 1)))

\* bytes.decode('utf-8') / str.encode('utf-8') on the ASCII range; a byte
\* above 0x7F is read as a UnicodeDecodeError (multi-byte text is not modelled).
utf8_decode(bs) ==
    IF \A p \in 1..Len(bs) : bs[p] < 128
    THEN [ok |-> TRUE, v |-> bs]
    ELSE [ok |-> FALSE, v |-> <<>>]

\* -------------------------------------------------------------------- base64
\* base64.b64encode / urlsafe_b64encode and binascii.a2b_base64 as b64decode
\* calls it (validate=False: characters outside the alphabet are discarded).

B64Std ==
    <<65, 66, 67, 68, 69, 70, 71, 72, 73, 74, 75, 76, 77, 78, 79, 80, 81, 82, 83,
      84, 85, 86, 87, 88, 89, 90, 97, 98, 99, 100, 101, 102, 103, 104, 105, 106,
      107, 108, 109, 110, 111, 112, 113, 114, 115, 116, 117, 118, 119, 120, 121,
      122, 48, 49, 50, 51, 52, 53, 54, 55, 56, 57, 43, 47>>

B64Index(c) ==
    CASE c \in 65..90  -> c - 65
      [] c \in 97..122 -> c - 71
      [] c \in 48..57  -> c + 4
      [] c = 43        -> 62
      [] c = 47        -> 63
      [] OTHER         -> 0 - 1

b64encode(bs) ==
    LET n == Len(bs)
        byte(q) == IF q <= n THEN bs[q] ELSE 0
        char(p) ==
            LET g  == (p - 1) \div 4
                j  == (p - 1) % 4
                b0 == byte(3 * g + 1)
                b1 == byte(3 * g + 2)
                b2 == byte(3 * g + 3)
            IN  CASE j = 0 -> B64Std[(b0 \div 4) + 1]
                  [] j = 1 -> B64Std[((b0 % 4) * 16 + (b1 \div 16)) + 1]
                  [] j = 2 -> IF 3 * g + 2 > n THEN 61
                              ELSE B64Std[((b1 % 16) * 4 + (b2 \div 64)) + 1]
                  [] j = 3 -> IF 3 * g + 3 > n THEN 61 ELSE B64Std[(b2 % 64) + 1]
    IN  [p \in 1..(4 * ((n + 2) \div 3)) |-> char(p)]

\* bytes.translate of the two alphabet characters that differ.
UrlsafeEncodeTranslation(c) == IF c = 43 THEN 45 ELSE IF c = 47 THEN 95 ELSE c
UrlsafeDecodeTranslation(c) == IF c = 45 THEN 43 ELSE IF c = 95 THEN 47 ELSE c

urlsafe_b64encode(bs) ==
    LET e == b64encode(bs) IN [p \in 1..Len(e) |-> UrlsafeEncodeTranslation(e[p])]

IsB64Char(c) == c = 61 \/ B64Index(c) >= 0
IsB64Data(c) == B64Index(c) >= 0

\* binascii.a2b_base64, not strict: data characters fill quads; a pad that
\* completes a quad (one after three data characters, the second of two after
\* two) ends the input; otherwise the data must fill whole quads.
a2b_base64(s) ==
    LET t == SelectSeq(s, IsB64Char)
        quad(p) == Cardinality({m \in 1..(p - 1) : t[m] # 61}) % 4
        stop(p) == t[p] = 61
                   /\ (quad(p) = 3 \/ (quad(p) = 2 /\ p > 1 /\ t[p - 1] = 61))
        stops == {p \in 1..Len(t) : stop(p)}
        used == IF stops = {} THEN t ELSE SubSeq(t, 1, Min(stops) - 1)
        d == SelectSeq(used, IsB64Data)
        m == Len(d)
        x(q) == B64Index(d[q])
        byte(q) ==
            LET g == (q - 1) \div 3
                j == (q - 1) % 3
            IN  CASE j = 0 -> x(4 * g + 1) * 4 + (x(4 * g + 2) \div 16)
                  [] j = 1 -> (x(4 * g + 2) % 16) * 16 + (x(4 * g + 3) \div 4)
                  [] j = 2 -> (x(4 * g + 3) % 4) * 64 + x(4 * g + 4)
        nbytes == (m \div 4) * 3 + (IF m % 4 = 0 THEN 0 ELSE (m % 4) - 1)
    IN  IF stops = {} /\ m % 4 # 0
        THEN [ok |-> FALSE, v |-> <<>>]
        ELSE [ok |-> TRUE, v |-> [q \in 1..nbytes |-> byte(q)]]

\* _bytes_from_decode_types: a str must be ASCII (ValueError otherwise).
IsAscii(s) == \A p \in 1..Len(s) : s[p] < 128

b64decode(s) ==
    IF IsAscii(s) THEN a2b_base64(s) ELSE [ok |-> FALSE, v |-> <<>>]

urlsafe_b64decode(s) ==
    IF IsAscii(s)
    THEN a2b_base64([p \in 1..Len(s) |-> UrlsafeDecodeTranslation(s[p])])
    ELSE [ok |-> FALSE, v |-> <<>>]

\* ---------------------------------------------------------------------- zlib
\* The zlib stream of RFC 1950: a two-byte header, the deflate data, the
\* Adler-32 of the plain bytes.  The deflate data is modelled in its stored
\* form (one final block: 01, LEN, ~LEN, the bytes), which zlib reads like any
\* other; Huffman-coded blocks are not modelled, and a stream that holds one
\* reads as a failure.

Adler32(bs) ==
    LET n == Len(bs)
    IN  [a |-> (1 + SumRange(bs, 1, n)) % 65521,
         b |-> (n + SumRange([p \in 1..n |-> (n - p + 1) * bs[p]], 1, n)) % 65521]

zlib_compress(bs) ==
    LET n == Len(bs)
        ck == Adler32(bs)
    IN  <<120, 156>>
        \o <<1, n % 256, n \div 256, 255 - (n % 256), 255 - (n \div 256)>>
        \o bs
        \o <<ck.b \div 256, ck.b % 256, ck.a \div 256, ck.a % 256>>

zlib_decompress(z) ==
    LET bad == [ok |-> FALSE, v |-> <<>>]
    IN  IF Len(z) < 7 THEN bad
        ELSE IF z[1] % 16 # 8 \/ z[1] \div 16 > 7 \/ (z[1] * 256 + z[2]) % 31 # 0
                \/ (z[2] \div 32) % 2 = 1
             THEN bad
        ELSE IF z[3] % 8 # 1 THEN bad
        ELSE LET n == z[4] + 256 * z[5]
                 data == SubSeq(z, 8, 7 + n)
                 ck == Adler32(data)
             IN  IF z[6] + 256 * z[7] # 65535 - n THEN bad
                 ELSE IF Len(z) < 7 + n + 4 THEN bad
                 ELSE IF SubSeq(z, 8 + n, 11 + n)
                         # <<ck.b \div 256, ck.b % 256, ck.a \div 256, ck.a % 256>>
                      THEN bad
                 ELSE [ok |-> TRUE, v |-> data]

\* ----------------------------------------------------------- the token codec

\* compress_and_encode with the zlib step left out.
compress_and_encode_plain(json_data) == urlsafe_b64encode(json_dumps(json_data))

\* compress_and_encode (lines 33-40).
compress_and_encode(json_data) ==
    urlsafe_b64encode(zlib_compress(json_dumps(json_data)))

RaisedJson == [ok |-> FALSE, v |-> JNone]

\* json.loads(data.decode('utf-8')), given the bytes or the exception before.
LoadsBytes(data) ==
    IF ~data.ok THEN RaisedJson
    ELSE IF ~utf8_decode(data.v).ok THEN RaisedJson
    ELSE json_loads(utf8_decode(data.v).v)

Inflate(decoded_data) ==
    IF ~decoded_data.ok THEN [ok |-> FALSE, v |-> <<>>]
    ELSE zlib_decompress(decoded_data.v)

\* The try block of decode_and_decompress (lines 44-48): ok = FALSE when any
\* of its three steps raises.
CompressedPath(encoded_str) == LoadsBytes(Inflate(urlsafe_b64decode(encoded_str)))

\* The fallback, were it to decompress like the try block.
LegacyPath_inflate(encoded_str) == LoadsBytes(Inflate(b64decode(encoded_str)))

\* The fallback (lines 50-53): standard base64 of the JSON text.
LegacyPath(encoded_str) == LoadsBytes(b64decode(encoded_str))

\* What decode_and_decompress returns, given what the try block gave and what
\* the fallback gives (read only when the try block raised).
TracePick(first, second) ==
    IF first.ok THEN [v |-> first.v, path |-> "compressed"]
    ELSE IF second.ok THEN [v |-> second.v, path |-> "legacy"]
    ELSE [v |-> JNone, path |-> "none"]

\* decode_and_decompress (lines 42-55): the value, and the path that gave it
\* ("none": both raised, and the function returns None).
DecodeTrace(encoded_str) ==
    TracePick(CompressedPath(encoded_str), LegacyPath(encoded_str))

decode_and_decompress(encoded_str) == DecodeTrace(encoded_str).v

\* ------------------------------------------------------------ the exam format
\* Exam (spec.md, DATA MODEL; the prompt's output format, lines 221-231).

Mcq(question, options, correct, marks) ==
    JObj(<<K_question, K_options, K_correct, K_marks>>,
         <<JStr(question), JArr(options), JStr(correct), JNum(marks)>>)

Written(question, marks) ==
    JObj(<<K_question, K_marks>>, <<JStr(question), JNum(marks)>>)

Exam(mcqs, short, long) ==
    JObj(<<K_mcqs, K_short, K_long>>, <<JArr(mcqs), JArr(short), JArr(long)>>)

ABCD == <<JStr(<<65>>), JStr(<<66>>), JStr(<<67>>), JStr(<<68>>)>>

\* The questions the model draws from: a plain MCQ and one whose text holds a
\* double quote and a backslash.
McqPool ==
    { Mcq(<<81>>, ABCD, <<65>>, 1),
      Mcq(<<34, 92>>, ABCD, <<66>>, 2) }
ShortPool == { Written(<<83>>, 2) }
LongPool  == { Written(<<76>>, 3) }

MaxMcq     == 2
MaxWritten == 1

SeqsUpTo(S, n) == UNION { [1..m -> S] : m \in 0..n }

Exams ==
    { Exam(m, s, l) : m \in SeqsUpTo(McqPool, MaxMcq),
                      s \in SeqsUpTo(ShortPool, MaxWritten),
                      l \in SeqsUpTo(LongPool, MaxWritten) }

\* A token of the older format the fallback reads (lines 50-53):
\* base64(JSON(exam)), never compressed.
LegacyToken(json_data) == b64encode(json_dumps(json_data))

\* ------------------------------------------------------------------- state

VARIABLES
    c_exam,         \* codec: the exam handed to compress_and_encode
    c_token,        \* codec: [kind, s] the token made of it ("none": not yet)
    c_out,          \* codec: [done, v, path] what decode_and_decompress gave
    p_pdf,          \* prepare: the uploaded PDF, [readable, pages]
    chunk_size,     \* split_and_upload_pdf's chunk_size
    p_pc,           \* prepare/split: where the call stands
    p_i,            \* split: the for loop's i
    gemini_files,   \* split: the list it returns
    content_parts,  \* prepare: the list it returns
    uploads,        \* every upload_to_gemini call so far: [kind, from, to, res]
    u_pc,           \* upload_to_gemini: where the call stands
    u_state,        \* gemini_file.state.name, as last observed
    retry_count,    \* upload_to_gemini's retry_count
    u_polls,        \* the number of genai.get_file calls of this upload
    u_ret,          \* what upload_to_gemini returned: [ok, state, why]
    exam_data,      \* st.session_state.exam_data (JNone: None)
    exam_link,      \* st.session_state.exam_link, [set, s] (set = FALSE: None)
    uploaded_content_parts,  \* st.session_state.uploaded_content_parts
    s_pc,           \* student_view: where the script run stands
    s_exam_id,      \* student_view: the text of the Exam ID input
    s_upload,       \* student_view: the uploaded exam file, [set, text]
    s_exam_data,    \* student_view: its local exam_data
    s_errors,       \* student_view: the st.error messages shown
    s_answers,      \* student_view: answers["mcq_i"], the radio selections
    s_total,        \* student_view: total_mcq_score
    s_score,        \* student_view: score
    a_pc,           \* add_more_questions: where the call stands
    a_exam,         \* add_more_questions: the exam as it was when handed in
    a_q_type,       \* add_more_questions: q_type
    a_new_q,        \* add_more_questions: [ok, v] what line 284 gave
    a_heap,         \* add_more_questions: the dict objects, by reference
    a_current,      \* add_more_questions: the reference current_exam holds
    a_ret           \* add_more_questions: the reference returned (0: none yet)

codecVars == <<c_exam, c_token, c_out>>
uploadVars == <<u_pc, u_state, retry_count, u_polls, u_ret>>
prepVars == <<p_pdf, chunk_size, p_pc, p_i, gemini_files, content_parts, uploads>>

teacherVars == <<exam_data, exam_link, uploaded_content_parts>>
studentVars == <<s_pc, s_exam_id, s_upload, s_exam_data, s_errors, s_answers, s_total, s_score>>

addVars == <<a_pc, a_exam, a_q_type, a_new_q, a_heap, a_current, a_ret>>

vars == <<codecVars, prepVars, uploadVars, teacherVars, studentVars, addVars>>

\* What the actions of one part leave alone.
notCodec   == <<prepVars, uploadVars, teacherVars, studentVars, addVars>>
notPrepare == <<codecVars, teacherVars, studentVars, addVars>>
notTeacher == <<codecVars, prepVars, uploadVars, studentVars, addVars>>
notStudent == <<codecVars, prepVars, uploadVars, teacherVars, addVars>>
notAdd     == <<codecVars, prepVars, uploadVars, teacherVars, studentVars>>

\* ------------------------------------------------- the codec as a machine

NoToken == [kind |-> "none", s |-> <<>>]
NoOut   == [done |-> FALSE, v |-> JNone, path |-> "none"]

CodecIdle == c_exam = JNone /\ c_token = NoToken /\ c_out = NoOut

CodecInit == c_exam \in Exams /\ c_token = NoToken /\ c_out = NoOut

\* compress_and_encode(exam)
CodecEncode ==
    /\ c_token.kind = "none"
    /\ c_token' = [kind |-> "compressed", s |-> compress_and_encode(c_exam)]
    /\ UNCHANGED <<c_exam, c_out>>
    /\ UNCHANGED notCodec

\* an older release encoded the same exam without compression
CodecLegacyEncode ==
    /\ c_token.kind = "none"
    /\ c_token' = [kind |-> "legacy", s |-> LegacyToken(c_exam)]
    /\ UNCHANGED <<c_exam, c_out>>
    /\ UNCHANGED notCodec

\* decode_and_decompress(token)
CodecDecode ==
    /\ c_token.kind # "none"
    /\ ~c_out.done
    /\ c_out' = [done |-> TRUE, v |-> DecodeTrace(c_token.s).v,
                 path |-> DecodeTrace(c_token.s).path]
    /\ UNCHANGED <<c_exam, c_token>>
    /\ UNCHANGED notCodec

CodecNext == CodecEncode \/ CodecLegacyEncode \/ CodecDecode

\* ------------------------------------------------------- upload_to_gemini
\* One call of upload_to_gemini (lines 61-91), as the steps it takes.  The
\* service answers each request with any state of the File API, or the request
\* raises.

max_retries == 30

FileStates == {"PROCESSING", "ACTIVE", "FAILED", "STATE_UNSPECIFIED"}

NoRet == [ok |-> FALSE, state |-> "", why |-> "pending"]

UploadIdle ==
    u_pc = "idle" /\ u_state = "" /\ retry_count = 0 /\ u_polls = 0 /\ u_ret = NoRet

\* the caller enters upload_to_gemini
UploadCall ==
    /\ u_pc' = "upload"
    /\ u_state' = ""
    /\ retry_count' = 0
    /\ u_polls' = 0
    /\ u_ret' = NoRet

\* line 69: genai.upload_file returns a file in some state, or raises (line 89)
UploadFile ==
    /\ u_pc = "upload"
    /\ UNCHANGED prepVars
    /\ UNCHANGED notPrepare
    /\ \/ \E s \in FileStates :
            /\ u_state' = s
            /\ u_pc' = "while"
            /\ UNCHANGED u_ret
       \/ /\ u_pc' = "returned"
          /\ u_ret' = [ok |-> FALSE, state |-> u_state, why |-> "raised"]
          /\ UNCHANGED u_state
    /\ UNCHANGED <<retry_count, u_polls>>

\* The timeout test of line 80.
TimedOut(count) == count > max_retries

\* lines 76-82: one turn of the while loop
UploadPoll ==
    /\ u_pc = "while"
    /\ UNCHANGED prepVars
    /\ UNCHANGED notPrepare
    /\ u_state = "PROCESSING"
    /\ u_polls' = u_polls + 1
    /\ \/ \E s \in FileStates :
            /\ u_state' = s
            /\ retry_count' = retry_count + 1
            /\ IF TimedOut(retry_count + 1)
               THEN /\ u_pc' = "returned"
                    /\ u_ret' = [ok |-> FALSE, state |-> s, why |-> "timeout"]
               ELSE /\ u_pc' = "while"
                    /\ UNCHANGED u_ret
       \/ /\ u_pc' = "returned"
          /\ u_ret' = [ok |-> FALSE, state |-> u_state, why |-> "raised"]
          /\ UNCHANGED <<u_state, retry_count>>

\* lines 84-88: the loop is left with the file in another state
UploadFinish ==
    /\ u_pc = "while"
    /\ UNCHANGED prepVars
    /\ UNCHANGED notPrepare
    /\ u_state # "PROCESSING"
    /\ u_pc' = "returned"
    /\ u_ret' = IF u_state = "FAILED"
                THEN [ok |-> FALSE, state |-> u_state, why |-> "failed"]
                ELSE [ok |-> TRUE, state |-> u_state, why |-> "file"]
    /\ UNCHANGED <<u_state, retry_count, u_polls>>

\* the caller has taken the result
UploadTaken ==
    /\ u_pc' = "idle"
    /\ u_state' = ""
    /\ retry_count' = 0
    /\ u_polls' = 0
    /\ u_ret' = NoRet

\* -------------------------- split_and_upload_pdf, prepare_content_for_gemini
\* prepare_content_for_gemini on one PDF (lines 157-176) and the
\* split_and_upload_pdf call it makes (lines 93-143).  PyPDF2's copying of the
\* pages of a readable PDF into a chunk file is taken to succeed.

DefaultChunkSize == 10
MaxChunks == 3

ChunkSizes == {1, 2, DefaultChunkSize}

\* line 116 without the min().
EndPage_unclamped(i, size, total_pages) == i + size

\* line 116
EndPage(i, size, total_pages) == IF i + size < total_pages THEN i + size ELSE total_pages

ChunkFile(from, to, state) == [kind |-> "chunk", from |-> from, to |-> to, state |-> state]
WholeFile(state) == [kind |-> "whole", from |-> 0, to |-> 0, state |-> state]

PrepareIdle ==
    /\ p_pdf = [readable |-> FALSE, pages |-> 0]
    /\ chunk_size = DefaultChunkSize
    /\ p_pc = "idle" /\ p_i = 0
    /\ gemini_files = <<>> /\ content_parts = <<>> /\ uploads = <<>>

PrepareInit ==
    /\ chunk_size \in ChunkSizes
    /\ p_pdf \in {[readable |-> FALSE, pages |-> 0]}
                 \cup {[readable |-> TRUE, pages |-> n] : n \in 0..(MaxChunks * chunk_size)}
    /\ p_pc = "start" /\ p_i = 0
    /\ gemini_files = <<>> /\ content_parts = <<>> /\ uploads = <<>>

\* lines 99-107: PdfReader reads the file, or raises and [] is returned
SplitStart ==
    /\ UNCHANGED notPrepare
    /\ p_pc = "start"
    /\ p_pc' = IF p_pdf.readable THEN "loop" ELSE "split_returned"
    /\ gemini_files' = <<>>
    /\ p_i' = 0
    /\ UNCHANGED <<p_pdf, chunk_size, content_parts, uploads>>
    /\ UNCHANGED uploadVars

\* lines 114-133: the next chunk is written and handed to upload_to_gemini
SplitChunk ==
    /\ UNCHANGED notPrepare
    /\ p_pc = "loop"
    /\ p_i < p_pdf.pages
    /\ EndPage(p_i, chunk_size, p_pdf.pages) > p_i      \* line 123: not empty
    /\ uploads' = Append(uploads, [kind |-> "chunk", from |-> p_i,
                                   to |-> EndPage(p_i, chunk_size, p_pdf.pages),
                                   res |-> "pending"])
    /\ p_pc' = "chunk_upload"
    /\ UploadCall
    /\ UNCHANGED <<p_pdf, chunk_size, p_i, gemini_files, content_parts>>

\* lines 134-138, were a failed upload to end the loop.
SplitChunkDone_abort ==
    /\ UNCHANGED notPrepare
    /\ p_pc = "chunk_upload"
    /\ u_pc = "returned"
    /\ gemini_files' = IF u_ret.ok
                       THEN Append(gemini_files,
                                   ChunkFile(uploads[Len(uploads)].from,
                                             uploads[Len(uploads)].to, u_ret.state))
                       ELSE gemini_files
    /\ uploads' = [uploads EXCEPT ![Len(uploads)].res = IF u_ret.ok THEN "file" ELSE "none"]
    /\ p_i' = p_i + chunk_size
    /\ p_pc' = IF u_ret.ok THEN "loop" ELSE "split_returned"
    /\ UploadTaken
    /\ UNCHANGED <<p_pdf, chunk_size, content_parts>>

\* lines 134-138: the chunk's file is kept when there is one; the loop goes on
SplitChunkDone ==
    /\ UNCHANGED notPrepare
    /\ p_pc = "chunk_upload"
    /\ u_pc = "returned"
    /\ gemini_files' = IF u_ret.ok
                       THEN Append(gemini_files,
                                   ChunkFile(uploads[Len(uploads)].from,
                                             uploads[Len(uploads)].to, u_ret.state))
                       ELSE gemini_files
    /\ uploads' = [uploads EXCEPT ![Len(uploads)].res = IF u_ret.ok THEN "file" ELSE "none"]
    /\ p_i' = p_i + chunk_size
    /\ p_pc' = "loop"
    /\ UploadTaken
    /\ UNCHANGED <<p_pdf, chunk_size, content_parts>>

\* lines 114, 140-143: range(0, total_pages, chunk_size) is exhausted
SplitReturn ==
    /\ UNCHANGED notPrepare
    /\ p_pc = "loop"
    /\ p_i >= p_pdf.pages
    /\ p_pc' = "split_returned"
    /\ UNCHANGED <<p_pdf, chunk_size, p_i, gemini_files, content_parts, uploads>>
    /\ UNCHANGED uploadVars

\* lines 164-172, were the whole file uploaded whenever some chunk is missing.
PrepareAfterSplit_anyMissing ==
    /\ UNCHANGED notPrepare
    /\ p_pc = "split_returned"
    /\ IF gemini_files # <<>> /\ \A k \in 1..Len(uploads) : uploads[k].res = "file"
       THEN /\ content_parts' = content_parts \o gemini_files
            /\ p_pc' = "done"
            /\ UNCHANGED uploads
            /\ UNCHANGED uploadVars
       ELSE /\ uploads' = Append(uploads, [kind |-> "whole", from |-> 0, to |-> 0,
                                           res |-> "pending"])
            /\ p_pc' = "whole_upload"
            /\ UploadCall
            /\ content_parts' = content_parts \o gemini_files
    /\ UNCHANGED <<p_pdf, chunk_size, p_i, gemini_files>>

\* lines 164-172: the chunks' files are taken, or the whole file is uploaded
PrepareAfterSplit ==
    /\ UNCHANGED notPrepare
    /\ p_pc = "split_returned"
    /\ IF gemini_files # <<>>
       THEN /\ content_parts' = content_parts \o gemini_files
            /\ p_pc' = "done"
            /\ UNCHANGED uploads
            /\ UNCHANGED uploadVars
       ELSE /\ uploads' = Append(uploads, [kind |-> "whole", from |-> 0, to |-> 0,
                                           res |-> "pending"])
            /\ p_pc' = "whole_upload"
            /\ UploadCall
            /\ UNCHANGED content_parts
    /\ UNCHANGED <<p_pdf, chunk_size, p_i, gemini_files>>

\* lines 172-174: the whole file's upload has returned
PrepareWholeDone ==
    /\ UNCHANGED notPrepare
    /\ p_pc = "whole_upload"
    /\ u_pc = "returned"
    /\ content_parts' = IF u_ret.ok THEN Append(content_parts, WholeFile(u_ret.state))
                        ELSE content_parts
    /\ uploads' = [uploads EXCEPT ![Len(uploads)].res = IF u_ret.ok THEN "file" ELSE "none"]
    /\ p_pc' = "done"
    /\ UploadTaken
    /\ UNCHANGED <<p_pdf, chunk_size, p_i, gemini_files>>

PrepareNext ==
    \/ SplitStart
    \/ SplitChunk
    \/ SplitChunkDone
    \/ SplitReturn
    \/ PrepareAfterSplit
    \/ PrepareWholeDone
    \/ UploadFile
    \/ UploadPoll
    \/ UploadFinish

\* ------------------------------------------------------------- student_view
\* One run of student_view (lines 440-514), as the steps the script takes.

HexUpper == <<48, 49, 50, 51, 52, 53, 54, 55, 56, 57, 65, 66, 67, 68, 69, 70>>

\* urllib.parse.quote(s), as line 410 calls it: letters, digits and "_.-~/"
\* stay, any other (ASCII) character becomes %XX.
QuoteChar(c) ==
    IF c \in 65..90 \/ c \in 97..122 \/ c \in 48..57 \/ c \in {95, 46, 45, 126, 47}
    THEN <<c>>
    ELSE <<37, HexUpper[(c \div 16) + 1], HexUpper[(c % 16) + 1]>>

quote(s) == Concat([p \in 1..Len(s) |-> QuoteChar(s[p])], 1, Len(s))

\* urllib.parse.unquote(s): %XX becomes the character of that code; a "%" not
\* followed by two hex digits stays.  A code above 0x7F stands for a non-ASCII
\* character (what UTF-8 decoding with errors='replace' leaves).
unquote(s) ==
    LET n == Len(s)
        esc(p) == s[p] = 37 /\ p + 2 <= n /\ HexVal(s[p + 1]) >= 0 /\ HexVal(s[p + 2]) >= 0
        inEsc(p) == (p > 1 /\ esc(p - 1)) \/ (p > 2 /\ esc(p - 2))
        out(p) == IF esc(p) THEN <<HexVal(s[p + 1]) * 16 + HexVal(s[p + 2])>>
                  ELSE IF inEsc(p) THEN <<>>
                  ELSE <<s[p]>>
    IN  Concat([p \in 1..n |-> out(p)], 1, n)

NoFile == [set |-> FALSE, text |-> <<>>]

\* lines 460-465: what the link tab leaves in exam_data, and whether it shows
\* "Invalid Exam ID".
LinkTabOf(decoded) == [data |-> decoded, err |-> ~Truthy(decoded)]

LinkTab(exam_id) ==
    IF exam_id = <<>> THEN [data |-> JNone, err |-> FALSE]
    ELSE IF \E p \in 1..Len(exam_id) : exam_id[p] = 37
         THEN LinkTabOf(decode_and_decompress(unquote(exam_id)))
         ELSE LinkTabOf(decode_and_decompress(exam_id))

\* lines 467-473: json.load of the uploaded file replaces exam_data, or
\* "Invalid file format" is shown and exam_data stays.
FileTabOf(loaded, before) ==
    IF loaded.ok THEN [data |-> loaded.v, errs |-> IF before.err THEN {"invalid_id"} ELSE {}]
    ELSE [data |-> before.data,
          errs |-> {"invalid_file"} \cup (IF before.err THEN {"invalid_id"} ELSE {})]

FileTab(upload, before) ==
    IF ~upload.set THEN [data |-> before.data, errs |-> IF before.err THEN {"invalid_id"} ELSE {}]
    ELSE FileTabOf(LoadsBytes([ok |-> TRUE, v |-> upload.text]), before)

\* `for q in x`: the items of a list; the characters of a str and the keys of
\* a dict (as strs); a TypeError for anything else.
Iterate(x) ==
    CASE x.t = "arr" -> [ok |-> TRUE, v |-> x.a]
      [] x.t = "str" -> [ok |-> TRUE, v |-> [p \in 1..Len(x.s) |-> JStr(<<x.s[p]>>)]]
      [] x.t = "obj" -> [ok |-> TRUE, v |-> [p \in 1..Len(x.k) |-> JStr(x.k[p])]]
      [] OTHER       -> [ok |-> FALSE, v |-> <<>>]

IsNumber(v) == v.t \in {"num", "true", "false"}
NumberOf(v) == IF v.t = "true" THEN 1 ELSE IF v.t = "false" THEN 0 ELSE v.n

\* a == b in Python, for the values compared here: True and False equal 1 and 0.
PyEq(a, b) == (IF IsNumber(a) THEN JNum(NumberOf(a)) ELSE a)
              = (IF IsNumber(b) THEN JNum(NumberOf(b)) ELSE b)

\* lines 487-490 for one MCQ: q['question'], q['marks'] and q['options'] are
\* read and q['marks'] is added to a number.
McqRenders(q) ==
    /\ Subscript(q, K_question).ok
    /\ Subscript(q, K_marks).ok
    /\ Subscript(q, K_options).ok
    /\ Iterate(Subscript(q, K_options).v).ok
    /\ IsNumber(Subscript(q, K_marks).v)

\* lines 494-498 for one list of written questions
WrittenRenders(exam, key) ==
    HasKey(exam, key) =>
        /\ Iterate(Subscript(exam, key).v).ok
        /\ \A p \in 1..Len(Iterate(Subscript(exam, key).v).v) :
               /\ Subscript(Iterate(Subscript(exam, key).v).v[p], K_question).ok
               /\ Subscript(Iterate(Subscript(exam, key).v).v[p], K_marks).ok

\* The MCQs the form shows (exam_data['mcqs'] is iterable).
McqsOf(exam) == Iterate(Subscript(exam, K_mcqs).v).v

\* The form of lines 480-503 is drawn without an exception.
FormRenders(exam) ==
    /\ Subscript(exam, K_mcqs).ok
    /\ Iterate(Subscript(exam, K_mcqs).v).ok
    /\ \A p \in 1..Len(McqsOf(exam)) : McqRenders(McqsOf(exam)[p])
    /\ WrittenRenders(exam, K_short)
    /\ WrittenRenders(exam, K_long)

\* lines 483-490: total_mcq_score after the MCQ loop
TotalMcqScore(mcqs) ==
    SumRange([p \in 1..Len(mcqs) |-> NumberOf(Subscript(mcqs[p], K_marks).v)], 1, Len(mcqs))

\* what st.radio may return for one MCQ: one of its options, None without any
RadioChoices(q) ==
    IF Iterate(Subscript(q, K_options).v).v = <<>> THEN {JNone}
    ELSE {Iterate(Subscript(q, K_options).v).v[p] :
              p \in 1..Len(Iterate(Subscript(q, K_options).v).v)}

\* lines 506-509, with every MCQ counted as answered correctly.
McqScore_all(mcqs, answers) ==
    SumRange([p \in 1..Len(mcqs) |-> NumberOf(Subscript(mcqs[p], K_marks).v)], 1, Len(mcqs))

\* lines 506-509: score after the loop of the submit branch
McqScore(mcqs, answers) ==
    SumRange([p \in 1..Len(mcqs) |->
                 IF PyEq(answers[p], Get(mcqs[p], K_correct))
                 THEN NumberOf(Subscript(mcqs[p], K_marks).v) ELSE 0],
             1, Len(mcqs))

\* The tokens and files the student is given or types.
\* The MCQs of the exams the student opens: a plain one, one whose 'correct'
\* is none of its options, one with negative marks.
StudentMcqPool ==
    { Mcq(<<81>>, ABCD, <<65>>, 1),
      Mcq(<<82>>, ABCD, <<90>>, 2),
      Mcq(<<78>>, ABCD, <<67>>, 0 - 1) }

StudentExams ==
    { Exam(m, s, l) : m \in SeqsUpTo(StudentMcqPool, MaxMcq),
                      s \in SeqsUpTo(ShortPool, MaxWritten),
                      l \in SeqsUpTo(LongPool, MaxWritten) }

\* JSON values that are no exam: a dict without the exam's keys, empty and
\* non-empty values of other types, an exam without its written lists, an exam
\* whose MCQ lacks 'marks'.
OddValues ==
    { JObj(<<<<97>>>>, <<JNum(1)>>), JObj(<<>>, <<>>), JArr(<<>>), JArr(<<JNum(1)>>),
      JNum(0), JNum(7), JNone, JStr(<<120>>),
      JObj(<<K_mcqs>>, <<JArr(<<>>)>>),
      Exam(<<JObj(<<K_question, K_options>>, <<JStr(<<81>>), JArr(ABCD)>>)>>, <<>>, <<>>) }

SampleExam == Exam(<<Mcq(<<81>>, ABCD, <<65>>, 1)>>, <<Written(<<83>>, 2)>>, <<>>)

BrokenTokens ==
    { <<33, 33>>, <<65, 65, 65, 65>>, <<233, 65, 65, 65>>, <<37>>,
      SubSeq(compress_and_encode(SampleExam), 1, 20) }

StudentTokens ==
    {<<>>}
    \cup { compress_and_encode(e) : e \in StudentExams \cup OddValues }
    \cup { quote(compress_and_encode(e)) : e \in {SampleExam} \cup OddValues }
    \cup { LegacyToken(e) : e \in {SampleExam} \cup OddValues }
    \cup BrokenTokens

StudentFiles ==
    { [set |-> TRUE, text |-> json_dumps(SampleExam)],
      [set |-> TRUE, text |-> <<123, 34>>] }

StudentInputs ==
    { <<tok, NoFile>> : tok \in StudentTokens }
    \cup { <<tok, f>> : tok \in {<<>>, <<33, 33>>}, f \in StudentFiles }

\* the page is opened or rerun with some Exam ID and some uploaded file
StudentOpen ==
    /\ UNCHANGED notStudent
    /\ s_pc = "idle"
    /\ \E in \in StudentInputs :
          /\ s_exam_id' = in[1]
          /\ s_upload' = in[2]
    /\ s_pc' = "tabs"
    /\ UNCHANGED <<s_exam_data, s_errors, s_answers, s_total, s_score>>

\* lines 453-473: the two tabs set exam_data
StudentLoad ==
    /\ UNCHANGED notStudent
    /\ s_pc = "tabs"
    /\ s_exam_data' = FileTab(s_upload, LinkTab(s_exam_id)).data
    /\ s_errors' = FileTab(s_upload, LinkTab(s_exam_id)).errs
    /\ s_pc' = "loaded"
    /\ UNCHANGED <<s_exam_id, s_upload, s_answers, s_total, s_score>>

\* lines 476-503: the form is drawn when there is exam data
StudentRender ==
    /\ UNCHANGED notStudent
    /\ s_pc = "loaded"
    /\ IF ~Truthy(s_exam_data)
       THEN s_pc' = "no_exam" /\ UNCHANGED <<s_answers, s_total>>
       ELSE IF ~FormRenders(s_exam_data)
       THEN s_pc' = "crashed" /\ UNCHANGED <<s_answers, s_total>>
       ELSE /\ s_pc' = "form"
            /\ s_total' = TotalMcqScore(McqsOf(s_exam_data))
            /\ s_answers' \in [1..Len(McqsOf(s_exam_data)) -> UNION {RadioChoices(McqsOf(s_exam_data)[p]) : p \in 1..Len(McqsOf(s_exam_data))}]
            /\ \A p \in 1..Len(McqsOf(s_exam_data)) :
                   s_answers'[p] \in RadioChoices(McqsOf(s_exam_data)[p])
    /\ UNCHANGED <<s_exam_id, s_upload, s_exam_data, s_errors, s_score>>

\* lines 505-513: Submit Exam was pressed
StudentSubmit ==
    /\ UNCHANGED notStudent
    /\ s_pc = "form"
    /\ s_score' = McqScore(McqsOf(s_exam_data), s_answers)
    /\ s_pc' = "submitted"
    /\ UNCHANGED <<s_exam_id, s_upload, s_exam_data, s_errors, s_answers, s_total>>

\* the script run is over; the next interaction runs it again
StudentRerun ==
    /\ UNCHANGED notStudent
    /\ s_pc \in {"no_exam", "crashed", "form", "submitted"}
    /\ s_pc' = "idle" /\ s_exam_id' = <<>> /\ s_upload' = NoFile
    /\ s_exam_data' = JNone /\ s_errors' = {} /\ s_answers' = <<>>
    /\ s_total' = 0 /\ s_score' = 0

StudentNext ==
    \/ StudentOpen
    \/ StudentLoad
    \/ StudentRender
    \/ StudentSubmit
    \/ StudentRerun

\* -------------------------------------------------------- teacher_dashboard
\* A teacher session (lines 302-438, 521-524): every action is one run of the
\* script for one interaction, the editor's pass over the exam included.

\* d[key] = val: an existing key keeps its place, a new key goes last.
SetItem(d, key, val) ==
    JObj(PutMember(d.k, d.a, key, val).k, PutMember(d.k, d.a, key, val).a)

\* What the model answered: ok = FALSE when the call raised, else its text.
NoResponse == [ok |-> FALSE, text |-> <<>>]
ResponseText(v) == [ok |-> TRUE, text |-> json_dumps(v)]

\* json.loads(response.text), or the exception of the call before it
ResponseJson(response) ==
    IF ~response.ok THEN RaisedJson ELSE json_loads(response.text)

\* generate_exam_paper (lines 205-250) with an API key: the parsed answer,
\* None when the call or the parsing raised.
generate_exam_paper(response) ==
    IF ResponseJson(response).ok THEN ResponseJson(response).v ELSE JNone

ListKey(q_type) ==
    CASE q_type = "MCQ"   -> K_mcqs
      [] q_type = "Short" -> K_short
      [] q_type = "Long"  -> K_long

\* add_more_questions with every new question put into 'mcqs'.
add_more_questions_mcqs(current_exam, new_q, q_type) ==
    IF ~new_q.ok THEN current_exam
    ELSE IF ~Subscript(current_exam, K_mcqs).ok THEN current_exam
    ELSE SetItem(current_exam, K_mcqs,
                 JArr(Append(Subscript(current_exam, K_mcqs).v.a, new_q.v)))

\* add_more_questions (lines 252-296), given new_q = what line 284 made of the
\* model's answer (ok = FALSE: the call or json.loads raised): the new question
\* is appended to the list of its type; any exception (the call, the parsing,
\* a missing list) gives the exam back as it is.
add_more_questions(current_exam, new_q, q_type) ==
    IF ~new_q.ok THEN current_exam
    ELSE IF q_type \notin {"MCQ", "Short", "Long"} THEN current_exam
    ELSE IF ~Subscript(current_exam, ListKey(q_type)).ok THEN current_exam
    ELSE IF Subscript(current_exam, ListKey(q_type)).v.t # "arr" THEN current_exam
    ELSE SetItem(current_exam, ListKey(q_type),
                 JArr(Append(Subscript(current_exam, ListKey(q_type)).v.a, new_q.v)))

\* line 352: while len(q['options']) < 4: q['options'].append("")
PadOptions(opts) ==
    opts \o [p \in 1..(IF Len(opts) < 4 THEN 4 - Len(opts) ELSE 0) |-> JStr(<<>>)]

\* lines 359-361: the correct answer the selectbox returns
CorrectOf(q, opts) ==
    IF HasKey(q, K_correct) /\ \E p \in 1..Len(opts) : opts[p] = Get(q, K_correct)
    THEN opts[Min({p \in 1..Len(opts) : opts[p] = Get(q, K_correct)})]
    ELSE opts[1]

\* lines 344-363 for one MCQ whose widgets the teacher did not touch
EditMcq(q) ==
    SetItem(
      SetItem(
        SetItem(
          SetItem(q, K_question, Subscript(q, K_question).v),
          K_options, JArr(PadOptions(Subscript(q, K_options).v.a))),
        K_correct, CorrectOf(q, PadOptions(Subscript(q, K_options).v.a))),
      K_marks, IF HasKey(q, K_marks) THEN Get(q, K_marks) ELSE JNum(1))

\* lines 368-374 for one written question
EditWritten(q) ==
    SetItem(SetItem(q, K_question, Subscript(q, K_question).v),
            K_marks, IF HasKey(q, K_marks) THEN Get(q, K_marks) ELSE JNum(2))

McqEditable(q) ==
    /\ HasKey(q, K_question)
    /\ HasKey(q, K_options)
    /\ Subscript(q, K_options).v.t = "arr"

\* The editor (lines 340-374) draws the exam without an exception.
EditorOk(exam) ==
    /\ Truthy(exam)
    /\ \A key \in {K_mcqs, K_short, K_long} :
           HasKey(exam, key) /\ Subscript(exam, key).v.t = "arr"
    /\ \A p \in 1..Len(Get(exam, K_mcqs).a) : McqEditable(Get(exam, K_mcqs).a[p])
    /\ \A key \in {K_short, K_long} :
           \A p \in 1..Len(Get(exam, key).a) : HasKey(Get(exam, key).a[p], K_question)

\* The editor's pass (lines 336-374) over st.session_state.exam_data: every
\* widget gives back the field it shows and the defaults are filled in.  An
\* exam that is falsy or that the editor cannot draw stays as it is.
EditorPass(exam) ==
    IF ~EditorOk(exam) THEN exam
    ELSE JObj(exam.k,
              [p \in 1..Len(exam.k) |->
                  IF exam.k[p] = K_mcqs
                  THEN JArr([i \in 1..Len(exam.a[p].a) |-> EditMcq(exam.a[p].a[i])])
                  ELSE IF exam.k[p] \in {K_short, K_long}
                  THEN JArr([i \in 1..Len(exam.a[p].a) |-> EditWritten(exam.a[p].a[i])])
                  ELSE exam.a[p]])

\* exam['mcqs'][0][key] = val, the widget of the first MCQ being changed
WithFirstMcq(exam, key, val) ==
    SetItem(exam, K_mcqs,
            JArr([i \in 1..Len(Get(exam, K_mcqs).a) |->
                     IF i = 1 THEN SetItem(Get(exam, K_mcqs).a[i], key, val)
                     ELSE Get(exam, K_mcqs).a[i]]))

\* What the model may answer to "Generate": an exam of the format, an exam
\* whose MCQ has two options and neither 'correct' nor 'marks', a dict that is
\* no exam, an empty dict, or nothing.
GenerateResponses ==
    { ResponseText(Exam(<<Mcq(<<81>>, ABCD, <<65>>, 1)>>, <<Written(<<83>>, 2)>>,
                        <<Written(<<76>>, 3)>>)),
      ResponseText(Exam(<<JObj(<<K_question, K_options>>,
                               <<JStr(<<80>>), JArr(<<JStr(<<65>>), JStr(<<66>>)>>)>>)>>,
                        <<>>, <<>>)),
      ResponseText(JObj(<<<<97>>>>, <<JNum(1)>>)),
      ResponseText(JObj(<<>>, <<>>)),
      NoResponse }

\* what generate_exam_paper returns for these answers
GeneratedExams == { generate_exam_paper(response) : response \in GenerateResponses }

\* What the model may answer to "Add MCQ" and "Add Short Q": a question, text
\* that is no JSON, or nothing; and what line 284 makes of it.
AddMcqResponses ==
    { ResponseText(Mcq(<<82>>, ABCD, <<90>>, 1)), [ok |-> TRUE, text |-> <<123, 34>>],
      NoResponse }
AddShortResponses ==
    { ResponseText(Written(<<84>>, 2)), [ok |-> TRUE, text |-> <<123, 34>>], NoResponse }

NewMcqs == { ResponseJson(response) : response \in AddMcqResponses }
NewShorts == { ResponseJson(response) : response \in AddShortResponses }

\* what prepare_content_for_gemini returned: nothing, or one uploaded file
TeacherParts == { <<>>, <<WholeFile("ACTIVE")>> }

EditedText == JStr(<<69>>)
EditedMarks == JNum(5)

NoLink == [set |-> FALSE, s |-> <<>>]

\* lines 319-333: "Generate Exam Paper" was pressed
TeacherGenerate ==
    /\ UNCHANGED notTeacher
    /\ \E parts \in TeacherParts, exam_json \in GeneratedExams :
          /\ uploaded_content_parts' = parts
          /\ exam_data' = EditorPass(IF parts # <<>> /\ Truthy(exam_json)
                                     THEN exam_json
                                     ELSE exam_data)
    /\ UNCHANGED exam_link

\* line 351: the teacher retyped the first MCQ's question
TeacherEditQuestion ==
    /\ UNCHANGED notTeacher
    /\ EditorOk(exam_data)
    /\ Get(exam_data, K_mcqs).a # <<>>
    /\ exam_data' = EditorPass(WithFirstMcq(exam_data, K_question, EditedText))
    /\ UNCHANGED <<exam_link, uploaded_content_parts>>

\* line 363: the teacher changed the first MCQ's marks
TeacherEditMarks ==
    /\ UNCHANGED notTeacher
    /\ EditorOk(exam_data)
    /\ Get(exam_data, K_mcqs).a # <<>>
    /\ exam_data' = EditorPass(WithFirstMcq(exam_data, K_marks, EditedMarks))
    /\ UNCHANGED <<exam_link, uploaded_content_parts>>

\* lines 380-383: "Add MCQ", then the rerun's pass of the editor
TeacherAddMCQ ==
    /\ UNCHANGED notTeacher
    /\ EditorOk(exam_data)
    /\ Len(Get(exam_data, K_mcqs).a) < MaxMcq
    /\ \E new_q \in NewMcqs :
          exam_data' = EditorPass(add_more_questions(exam_data, new_q, "MCQ"))
    /\ UNCHANGED <<exam_link, uploaded_content_parts>>

\* lines 385-388: "Add Short Q", then the rerun's pass of the editor
TeacherAddShort ==
    /\ UNCHANGED notTeacher
    /\ EditorOk(exam_data)
    /\ Len(Get(exam_data, K_short).a) < MaxWritten
    /\ \E new_q \in NewShorts :
          exam_data' = EditorPass(add_more_questions(exam_data, new_q, "Short"))
    /\ UNCHANGED <<exam_link, uploaded_content_parts>>

\* lines 390-393: "Publish"
TeacherPublish ==
    /\ UNCHANGED notTeacher
    /\ EditorOk(exam_data)
    /\ exam_link' = [set |-> TRUE, s |-> compress_and_encode(exam_data)]
    /\ UNCHANGED <<exam_data, uploaded_content_parts>>

TeacherNext ==
    \/ TeacherGenerate
    \/ TeacherEditQuestion
    \/ TeacherEditMarks
    \/ TeacherAddMCQ
    \/ TeacherAddShort
    \/ TeacherPublish

\* ------------------------------------------------------ add_more_questions
\* One call of add_more_questions (lines 252-296) on its own: current_exam is
\* a reference to a dict, which the function changes in place and returns.

AddTypes == {"MCQ", "Short", "Long"}

\* the exams handed in: those of the format, and one without 'short' and 'long'
AddExams == Exams \cup { JObj(<<K_mcqs>>, <<JArr(<<>>)>>) }

\* what line 284 may give: a parsed question, or the exception
NewQuestions == NewMcqs \cup NewShorts

AddIdle ==
    /\ a_pc = "idle" /\ a_exam = JNone /\ a_q_type = "" /\ a_new_q = RaisedJson
    /\ a_heap = <<>> /\ a_current = 0 /\ a_ret = 0

\* the call is entered with some exam and some q_type
AddInit ==
    /\ a_pc = "entered"
    /\ a_exam \in AddExams
    /\ a_q_type \in AddTypes
    /\ a_new_q = RaisedJson
    /\ a_heap = <<a_exam>> /\ a_current = 1 /\ a_ret = 0

\* lines 279-284: the model answers and the answer is parsed, or one of the
\* two raises
AddAnswer ==
    /\ UNCHANGED notAdd
    /\ a_pc = "entered"
    /\ a_new_q' \in NewQuestions
    /\ a_pc' = "answered"
    /\ UNCHANGED <<a_exam, a_q_type, a_heap, a_current, a_ret>>

\* lines 286-296: the append in place and `return current_exam`
AddReturn ==
    /\ UNCHANGED notAdd
    /\ a_pc = "answered"
    /\ a_heap' = [a_heap EXCEPT ![a_current] =
                     add_more_questions(a_heap[a_current], a_new_q, a_q_type)]
    /\ a_ret' = a_current
    /\ a_pc' = "returned"
    /\ UNCHANGED <<a_exam, a_q_type, a_new_q, a_current>>

AddNext ==
    \/ AddAnswer
    \/ AddReturn

\* ------------------------------------------------------------------ claims

\* C1: the token round trip.  For every exam e, decode_and_decompress(
\* compress_and_encode(e)) equals e, and it is the compressed path (urlsafe
\* base64, zlib, JSON) that gives it, not the legacy fallback.
C1_RoundTrip ==
    (c_out.done /\ c_token.kind = "compressed")
        => (c_out.v = c_exam /\ c_out.path = "compressed")

C1_Witness ==
    /\ c_out.done /\ c_token.kind = "compressed"
    /\ Len(Get(c_exam, K_mcqs).a) >= 2 /\ Len(Get(c_exam, K_short).a) >= 1

\* C2: the legacy fallback.  The compressed path is tried first and the plain
\* path (standard base64, JSON) gives the result only when the compressed path
\* raised; a legacy token base64(JSON(e)) decodes to e through the fallback.
C2_LegacyFallback ==
    /\ c_out.done => (c_out.path = "compressed" <=> CompressedPath(c_token.s).ok)
    /\ (c_out.done /\ c_token.kind = "legacy")
           => (c_out.path = "legacy" /\ c_out.v = c_exam)

C2_Witness ==
    /\ c_out.done /\ c_token.kind = "legacy" /\ c_out.path = "legacy"
    /\ Len(Get(c_exam, K_mcqs).a) >= 2 /\ Len(Get(c_exam, K_long).a) >= 1

IsChunk(u) == u.kind = "chunk"
IsWhole(u) == u.kind = "whole"
GotFile(u) == u.res = "file"

\* The chunk uploads attempted so far, in the order they were made.
Chunks == SelectSeq(uploads, IsChunk)

\* split_and_upload_pdf has returned from a readable PDF.
SplitDone == p_pdf.readable /\ p_pc \in {"split_returned", "whole_upload", "done"}

CeilDiv(n, d) == (n + d - 1) \div d

\* C4: the chunk partition.  For a readable PDF of N pages and chunk_size
\* c >= 1 the chunks are the page ranges [i, min(i + c, N)) for i = 0, c, 2c,
\* ... < N: every page lies in exactly one chunk, the chunks come in ascending
\* page order, each holds 1..c pages and only the last may hold fewer than c,
\* and exactly ceil(N / c) uploads are attempted (none when N = 0).
C4_ChunkPartition ==
    SplitDone =>
        LET N == p_pdf.pages
            c == chunk_size
            ch == Chunks
        IN  /\ Len(ch) = CeilDiv(N, c)
            /\ \A pg \in 0..(N - 1) :
                   Cardinality({k \in 1..Len(ch) : ch[k].from <= pg /\ pg < ch[k].to}) = 1
            /\ \A k \in 1..Len(ch) :
                   /\ 0 <= ch[k].from /\ ch[k].to <= N
                   /\ ch[k].to - ch[k].from >= 1 /\ ch[k].to - ch[k].from <= c
                   /\ k < Len(ch) => (ch[k].to - ch[k].from = c /\ ch[k].to = ch[k + 1].from)

C4_Witness ==
    /\ SplitDone /\ chunk_size = DefaultChunkSize /\ Len(Chunks) = 3
    /\ Chunks[3].to - Chunks[3].from < chunk_size

\* C6 (as claimed): bounded polling.  upload_to_gemini gives up after at most
\* max_retries = 30 polls: it never issues a 31st get_file call.
C6_AtMostMaxRetriesPolls == u_polls <= max_retries

\* C7 (as claimed): upload_to_gemini returns None only when the upload or a
\* poll raised, the last observed state is FAILED, or the file is still
\* PROCESSING when the budget runs out; a file last observed in any other state
\* is returned; a returned file is never PROCESSING or FAILED.
C7_NoneOnlyWhenNotReady ==
    u_pc = "returned" =>
        /\ ~u_ret.ok => (u_ret.why = "raised" \/ u_state \in {"FAILED", "PROCESSING"})
        /\ (u_ret.why # "raised" /\ u_state \notin {"FAILED", "PROCESSING"}) => u_ret.ok
        /\ u_ret.ok => u_ret.state \notin {"FAILED", "PROCESSING"}

\* C9: best-effort chunk upload.  Every chunk's upload is attempted whether or
\* not earlier ones failed, and the list returned holds exactly the files of
\* the chunks whose upload gave one, in ascending page order, none twice.
C9_BestEffortChunks ==
    SplitDone =>
        LET got == SelectSeq(Chunks, GotFile)
        IN  /\ Len(Chunks) = CeilDiv(p_pdf.pages, chunk_size)
            /\ \A k \in 1..Len(Chunks) : Chunks[k].res \in {"file", "none"}
            /\ Len(gemini_files) = Len(got)
            /\ \A k \in 1..Len(got) :
                   /\ gemini_files[k].kind = "chunk"
                   /\ gemini_files[k].from = got[k].from
                   /\ gemini_files[k].to = got[k].to
            /\ \A j, k \in 1..Len(gemini_files) :
                   j < k => gemini_files[j].to <= gemini_files[k].from

C9_Witness ==
    /\ SplitDone /\ Len(Chunks) = 3 /\ Len(gemini_files) = 1
    /\ Chunks[1].res = "none" /\ Chunks[2].res = "file" /\ Chunks[3].res = "none"

WholeAttempts == {k \in 1..Len(uploads) : IsWhole(uploads[k])}

\* C10: the whole-file fallback.  The whole file is uploaded if and only if
\* split_and_upload_pdf returned an empty list, and at most once; so the PDF
\* contributes either its chunks' files or at most one whole-file object, never
\* both, and a PDF with a successful chunk is never uploaded whole.
C10_WholeFileFallback ==
    /\ Cardinality(WholeAttempts) <= 1
    /\ WholeAttempts # {} => (gemini_files = <<>> /\ p_pc \in {"whole_upload", "done"})
    /\ p_pc = "done" => (WholeAttempts # {} <=> gemini_files = <<>>)
    /\ p_pc = "done" =>
           IF gemini_files # <<>>
           THEN content_parts = gemini_files
           ELSE \/ content_parts = <<>>
                \/ (Len(content_parts) = 1 /\ content_parts[1].kind = "whole")
    /\ ~\E j, k \in 1..Len(content_parts) :
           content_parts[j].kind = "chunk" /\ content_parts[k].kind = "whole"

C10_Witness ==
    /\ p_pc = "done" /\ p_pdf.readable /\ Len(Chunks) = 2
    /\ WholeAttempts # {} /\ Len(content_parts) = 1 /\ content_parts[1].kind = "whole"

\* A run of student_view that got its exam data from the Exam ID alone and
\* has come to its end.
TokenRunOver ==
    /\ s_pc \in {"no_exam", "crashed", "form", "submitted"}
    /\ s_exam_id # <<>>
    /\ ~s_upload.set

HasExamKeys(v) == HasKey(v, K_mcqs) /\ HasKey(v, K_short) /\ HasKey(v, K_long)

\* C3: once student_view has handled an Exam ID, either the token decoded to
\* an object with the keys mcqs, short and long and the exam form is rendered
\* without the error, or the token was treated as invalid: "Invalid Exam ID"
\* is shown and no exam is rendered.  There is no third outcome.
C3_DecodeOrInvalid ==
    TokenRunOver =>
        \/ /\ s_pc \in {"form", "submitted"}
           /\ HasExamKeys(s_exam_data)
           /\ "invalid_id" \notin s_errors
        \/ /\ s_pc = "no_exam"
           /\ "invalid_id" \in s_errors

\* the sum of f over the indices in S
RECURSIVE SumOver(_, _)
SumOver(S, f) ==
    IF S = {} THEN 0
    ELSE LET x == CHOOSE y \in S : TRUE IN f[x] + SumOver(S \ {x}, f)

ShownMcqs == s_exam_data.a[1].a
MarksOf == [p \in 1..Len(ShownMcqs) |-> ShownMcqs[p].a[4].n]
AnsweredCorrectly == { p \in 1..Len(ShownMcqs) : s_answers[p] = ShownMcqs[p].a[3] }

\* C5: after Submit, the score shown is the sum of the marks of the MCQs whose
\* selected option equals the MCQ's correct value, the total is the sum of the
\* marks of all MCQs, written questions add to neither, and with no negative
\* marks 0 <= score <= total.
C5_McqAutoScore ==
    (s_pc = "submitted" /\ s_exam_data \in StudentExams) =>
        /\ s_score = SumOver(AnsweredCorrectly, MarksOf)
        /\ s_total = SumOver(1..Len(ShownMcqs), MarksOf)
        /\ (\A p \in 1..Len(ShownMcqs) : MarksOf[p] >= 0) => (0 <= s_score /\ s_score <= s_total)

\* An exam with written questions was submitted with one MCQ right and one
\* wrong.
C5_Witness ==
    /\ s_pc = "submitted" /\ s_exam_data \in StudentExams
    /\ Len(ShownMcqs) = 2
    /\ Cardinality(AnsweredCorrectly) = 1
    /\ s_exam_data.a[2].a # <<>>
    /\ 0 < s_score /\ s_score < s_total

\* The sharing section (lines 396-438) is reached: there is a link and the
\* editor above it drew the exam.
LinkShown == exam_link.set /\ EditorOk(exam_data)

\* C8: whenever a share link is shown, the token in the link (quoted at
\* line 410, unquoted by the student page) decodes to the current exam_data,
\* the exam the backup file beside it holds.
C8_LinkDecodesToCurrentExam ==
    LinkShown => decode_and_decompress(unquote(quote(exam_link.s))) = exam_data

\* the list q_type names
TypeKey ==
    IF a_q_type = "MCQ" THEN K_mcqs ELSE IF a_q_type = "Short" THEN K_short ELSE K_long

\* the model answered, its answer parsed, and the exam has the list of q_type
QuestionAppended == a_new_q.ok /\ HasKey(a_exam, TypeKey)

\* C11: add_more_questions with q_type MCQ, Short or Long.  On a successful
\* answer exactly one question, the new one, is appended at the end of the
\* list q_type names, and the other lists and every earlier question stay as
\* they were; when the call or the parsing fails, all lists stay as they were.
\* Either way what is returned is the object that was handed in.
C11_AddFrameEffect ==
    a_pc = "returned" =>
        /\ a_ret = a_current
        /\ a_heap[a_ret].t = "obj" /\ a_heap[a_ret].k = a_exam.k
        /\ \A p \in 1..Len(a_exam.k) :
               a_heap[a_ret].a[p] =
                   IF QuestionAppended /\ a_exam.k[p] = TypeKey
                   THEN JArr(Append(a_exam.a[p].a, a_new_q.v))
                   ELSE a_exam.a[p]
        /\ ~a_new_q.ok => a_heap[a_ret] = a_exam

\* A Long question was appended to an exam with two MCQs and a long question.
C11_Witness ==
    /\ a_pc = "returned" /\ a_q_type = "Long" /\ a_new_q.ok
    /\ Len(Get(a_exam, K_mcqs).a) = 2 /\ Len(Get(a_exam, K_long).a) = 1
    /\ Len(Get(a_heap[a_ret], K_long).a) = 2
    /\ Get(a_heap[a_ret], K_long).a[2] = a_new_q.v
    /\ Get(a_heap[a_ret], K_mcqs) = Get(a_exam, K_mcqs)

\* ----------------------------------------------------------- specifications

TeacherIdle ==
    exam_data = JNone /\ exam_link = NoLink
    /\ uploaded_content_parts = <<>>

StudentIdle ==
    /\ s_pc = "idle" /\ s_exam_id = <<>> /\ s_upload = NoFile
    /\ s_exam_data = JNone /\ s_errors = {} /\ s_answers = <<>>
    /\ s_total = 0 /\ s_score = 0

InitCodec == CodecInit /\ PrepareIdle /\ UploadIdle /\ TeacherIdle /\ StudentIdle /\ AddIdle
SpecCodec == InitCodec /\ [][CodecNext]_vars

InitPrepare == PrepareInit /\ UploadIdle /\ CodecIdle /\ TeacherIdle /\ StudentIdle /\ AddIdle
SpecPrepare == InitPrepare /\ [][PrepareNext]_vars

InitStudent == StudentIdle /\ CodecIdle /\ PrepareIdle /\ UploadIdle /\ TeacherIdle /\ AddIdle
SpecStudent == InitStudent /\ [][StudentNext]_vars

InitTeacher == TeacherIdle /\ CodecIdle /\ PrepareIdle /\ UploadIdle /\ StudentIdle /\ AddIdle
SpecTeacher == InitTeacher /\ [][TeacherNext]_vars

InitAdd == AddInit /\ CodecIdle /\ PrepareIdle /\ UploadIdle /\ TeacherIdle /\ StudentIdle
SpecAdd == InitAdd /\ [][AddNext]_vars

====
